---- MODULE Spec2Model ----
(***************************************************************************)
(* Shared virtual-time timer (timer_streamli.py): every browser session    *)
(* keeps the configuration in st.session_state and mirrors it in one row   *)
(* of the timer_state table.  Instants and durations are integers counted  *)
(* in ticks of 1/TPS second from 00:00:00 (Asia/Seoul) of day 0; a python  *)
(* None is the empty sequence and a value v that may be None is <<v>>.     *)
(***************************************************************************)
EXTENDS Integers, Sequences, FiniteSets, TLC

(* ------------------------------ bounds -------------------------------- *)
\* clock resolution: ticks per second (python keeps microseconds)
TPS == 2
\* how many events of the environment a behaviour holds: button presses,
\* store requests that raise, advances of the wall clock
MaxEvents == 2
\* the browser sessions looking at the timer
Clients == {"a", "b"}

(* --------------------------- time arithmetic -------------------------- *)
SEC == TPS
MINUTE == 60 * SEC
HOUR == 60 * MINUTE
DAY == 24 * HOUR

\* timedelta(days=d, hours=h, minutes=m, seconds=s)
timedelta(d, h, m, s) == d * DAY + h * HOUR + m * MINUTE + s * SEC

\* datetime on day d at h:m:s, Asia/Seoul (a fixed offset, no DST)
datetime(d, h, m, s) == d * DAY + h * HOUR + m * MINUTE + s * SEC

\* dt.replace(hour=h, minute=m, second=s, microsecond=0): same calendar date
replace_hms(dt, h, m, s) == (dt \div DAY) * DAY + h * HOUR + m * MINUTE + s * SEC

\* dt.replace(microsecond=0)
replace_microsecond0(dt) == (dt \div SEC) * SEC

(* ------------------------------ settings ------------------------------ *)
REAL_BASE_H == 20
VIRT_BASE_H == 9
DEFAULT_SPEED == 3
ROW_ID == 1
\* "speed int default 3" of the table SQL
SQL_DEFAULT_SPEED == 3

None == << >>
Some(v) == << v >>

(* ------------------------------- utils -------------------------------- *)
\* a default that get_default_real_base could be: 20:00:00 of the current date,
\* also before 20:00:00
get_default_real_base_same_date(now_) == replace_hms(now_, REAL_BASE_H, 0, 0)

get_default_real_base(now_) ==
  LET base == replace_hms(now_, REAL_BASE_H, 0, 0)
  IN  IF now_ < base THEN base - timedelta(1, 0, 0, 0) ELSE base

get_default_virt_base(rb) == replace_hms(rb, VIRT_BASE_H, 0, 0)

\* a slip compute_virtual could hold: an elapsed time below zero counts as zero
compute_virtual_clamped(ss, now_) ==
  LET elapsed == IF now_ < ss.real_base THEN 0 ELSE now_ - ss.real_base
      vn == ss.virt_base + elapsed * ss.speed + ss.virt_adjust
  IN  replace_microsecond0(vn)

\* a mapper that compute_virtual could be: the scaled elapsed time is taken off
\* the virtual base
compute_virtual_backward(ss, now_) ==
  LET elapsed == now_ - ss.real_base
      vn == ss.virt_base - elapsed * ss.speed + ss.virt_adjust
  IN  replace_microsecond0(vn)

\* vb + timedelta(seconds=elapsed.total_seconds() * speed) + adj, microsecond=0
\* (the float product is exact at this resolution)
compute_virtual(ss, now_) ==
  LET elapsed == now_ - ss.real_base
      vn == ss.virt_base + elapsed * ss.speed + ss.virt_adjust
  IN  replace_microsecond0(vn)

(* --------------------------- remote state I/O ------------------------- *)
\* isoformat(): whole seconds, then the fraction of a second
to_iso(dt) == [sec |-> dt \div SEC, frac |-> dt % SEC]

from_iso(s) == s.sec * SEC + s.frac

\* int(td.total_seconds()): int() drops the fraction, towards zero
int_total_seconds(td) == IF td >= 0 THEN td \div SEC ELSE -((-td) \div SEC)

\* the payload of save_remote_state, stamped with the clock reading at
payload_of(ss, at) ==
  [ id              |-> ROW_ID,
    real_base_iso   |-> Some(to_iso(ss.real_base)),
    virt_base_iso   |-> Some(to_iso(ss.virt_base)),
    virt_adjust_sec |-> int_total_seconds(ss.virt_adjust),
    speed           |-> ss.speed,
    updated_at      |-> at ]

\* a slip upsert could hold: the speed column of an existing row is kept
upsert_keeps_speed(rows, payload) ==
  IF rows = << >> THEN << payload >>
  ELSE << [payload EXCEPT !.speed = rows[1].speed] >>

\* table.upsert(payload): the row with the payload's id becomes the payload
upsert(rows, payload) == << payload >>

\* "insert into public.timer_state (id) values (1)" of the table SQL
sql_row ==
  [ id              |-> ROW_ID,
    real_base_iso   |-> None,
    virt_base_iso   |-> None,
    virt_adjust_sec |-> 0,
    speed           |-> SQL_DEFAULT_SPEED,
    updated_at      |-> 0 ]

\* a slip apply_remote_state could hold: virt_adjust is not taken over
apply_remote_state_skips_adjust(ss, r) ==
  [ ss EXCEPT
      !.real_base      = IF r.real_base_iso # None
                           THEN from_iso(r.real_base_iso[1]) ELSE @,
      !.virt_base      = IF r.virt_base_iso # None
                           THEN from_iso(r.virt_base_iso[1]) ELSE @,
      !.speed          = r.speed,
      !.last_loaded_at = Some(r.updated_at) ]

\* a slip apply_remote_state could hold: the bases of the record also become
\* the values the reset buttons restore
apply_remote_state_moves_init(ss, r) ==
  [ ss EXCEPT
      !.real_base      = IF r.real_base_iso # None
                           THEN from_iso(r.real_base_iso[1]) ELSE @,
      !.virt_base      = IF r.virt_base_iso # None
                           THEN from_iso(r.virt_base_iso[1]) ELSE @,
      !.real_base_init = IF r.real_base_iso # None
                           THEN from_iso(r.real_base_iso[1]) ELSE @,
      !.virt_base_init = IF r.virt_base_iso # None
                           THEN from_iso(r.virt_base_iso[1]) ELSE @,
      !.virt_adjust    = timedelta(0, 0, 0, r.virt_adjust_sec),
      !.speed          = r.speed,
      !.last_loaded_at = Some(r.updated_at) ]

apply_remote_state(ss, r) ==
  [ ss EXCEPT
      !.real_base      = IF r.real_base_iso # None
                           THEN from_iso(r.real_base_iso[1]) ELSE @,
      !.virt_base      = IF r.virt_base_iso # None
                           THEN from_iso(r.virt_base_iso[1]) ELSE @,
      !.virt_adjust    = timedelta(0, 0, 0, r.virt_adjust_sec),
      !.speed          = r.speed,
      !.last_loaded_at = Some(r.updated_at) ]

(* ------------------------------ buttons ------------------------------- *)
\* the six +/- buttons of a base panel
base_deltas ==
  { timedelta(1, 0, 0, 0), -timedelta(1, 0, 0, 0), timedelta(0, 1, 0, 0),
    -timedelta(0, 1, 0, 0), timedelta(0, 0, 1, 0), -timedelta(0, 0, 1, 0) }

\* btns: the seven buttons of the adjustment panel
btns ==
  { timedelta(1, 0, 0, 0), -timedelta(1, 0, 0, 0), timedelta(0, 1, 0, 0),
    -timedelta(0, 1, 0, 0), timedelta(0, 0, 10, 0), timedelta(0, 0, 1, 0),
    -timedelta(0, 0, 1, 0) }

\* a slip the speed buttons could hold: a button for x0
speeds_with_zero == {0, 1, 2, 3, 4, 6, 9}

\* the speed buttons
speeds == {1, 2, 3, 4, 6, 9}

\* values a user enters in the date and time inputs (whole seconds)
Targets == { datetime(1, 9, 0, 0), datetime(4, 9, 0, 1) }

Buttons ==
       [kind : {"real_add"}, arg : base_deltas]
  \cup [kind : {"real_reset"}, arg : {0}]
  \cup [kind : {"virt_add"}, arg : base_deltas]
  \cup [kind : {"virt_reset"}, arg : {0}]
  \cup [kind : {"adj_add"}, arg : btns]
  \cup [kind : {"set_target"}, arg : Targets]
  \cup [kind : {"adj_reset"}, arg : {0}]
  \cup [kind : {"speed"}, arg : speeds]
  \cup [kind : {"reset_all"}, arg : {0}]

\* "지금 시각을 이 값으로 맞춤"
set_to_target(ss, target, nowx) ==
  LET base_no_adj == ss.virt_base + (nowx - ss.real_base) * ss.speed
  IN  [ss EXCEPT !.virt_adjust = target - base_no_adj]

\* "모두 초기화"
reset_all(ss, nowx) ==
  LET rb == get_default_real_base(nowx)
      vb == get_default_virt_base(rb)
  IN  [ss EXCEPT !.real_base = rb, !.virt_base = vb,
                 !.real_base_init = rb, !.virt_base_init = vb,
                 !.virt_adjust = timedelta(0, 0, 0, 0),
                 !.speed = DEFAULT_SPEED]

\* a slip the handlers could hold: an adjustment button sets changed3 but
\* leaves virt_adjust as it is
handler_adj_ignored(ss, b, nowx) ==
  CASE b.kind = "real_add"   -> [ss EXCEPT !.real_base = @ + b.arg]
    [] b.kind = "real_reset" -> [ss EXCEPT !.real_base = ss.real_base_init]
    [] b.kind = "virt_add"   -> [ss EXCEPT !.virt_base = @ + b.arg]
    [] b.kind = "virt_reset" -> [ss EXCEPT !.virt_base = ss.virt_base_init]
    [] b.kind = "adj_add"    -> ss
    [] b.kind = "set_target" -> set_to_target(ss, b.arg, nowx)
    [] b.kind = "adj_reset"  -> [ss EXCEPT !.virt_adjust = timedelta(0, 0, 0, 0)]
    [] b.kind = "speed"      -> [ss EXCEPT !.speed = b.arg]
    [] b.kind = "reset_all"  -> reset_all(ss, nowx)

\* a handler that the one below could be: "보정 초기화" leaves the adjustment
handler_adj_kept(ss, b, nowx) ==
  CASE b.kind = "real_add"   -> [ss EXCEPT !.real_base = @ + b.arg]
    [] b.kind = "real_reset" -> [ss EXCEPT !.real_base = ss.real_base_init]
    [] b.kind = "virt_add"   -> [ss EXCEPT !.virt_base = @ + b.arg]
    [] b.kind = "virt_reset" -> [ss EXCEPT !.virt_base = ss.virt_base_init]
    [] b.kind = "adj_add"    -> [ss EXCEPT !.virt_adjust = @ + b.arg]
    [] b.kind = "set_target" -> set_to_target(ss, b.arg, nowx)
    [] b.kind = "adj_reset"  -> ss
    [] b.kind = "speed"      -> [ss EXCEPT !.speed = b.arg]
    [] b.kind = "reset_all"  -> reset_all(ss, nowx)

\* what the pressed button does to st.session_state, before the save
handler(ss, b, nowx) ==
  CASE b.kind = "real_add"   -> [ss EXCEPT !.real_base = @ + b.arg]
    [] b.kind = "real_reset" -> [ss EXCEPT !.real_base = ss.real_base_init]
    [] b.kind = "virt_add"   -> [ss EXCEPT !.virt_base = @ + b.arg]
    [] b.kind = "virt_reset" -> [ss EXCEPT !.virt_base = ss.virt_base_init]
    [] b.kind = "adj_add"    -> [ss EXCEPT !.virt_adjust = @ + b.arg]
    [] b.kind = "set_target" -> set_to_target(ss, b.arg, nowx)
    [] b.kind = "adj_reset"  -> [ss EXCEPT !.virt_adjust = timedelta(0, 0, 0, 0)]
    [] b.kind = "speed"      -> [ss EXCEPT !.speed = b.arg]
    [] b.kind = "reset_all"  -> reset_all(ss, nowx)

\* the four configuration fields of a session
config(ss) ==
  [ real_base |-> ss.real_base, virt_base |-> ss.virt_base,
    virt_adjust |-> ss.virt_adjust, speed |-> ss.speed ]

(* ------------------------------- state -------------------------------- *)
VARIABLES
  now,            \* the wall clock, datetime.now(SEOUL)
  nticks,         \* how often the clock advanced
  supabase,       \* whether get_client() gave a client
  table,          \* the rows of timer_state with id = ROW_ID: none or one
  stamp,          \* clock readings taken by saves so far (updated_at values)
  session_state,  \* st.session_state of each session
  pc,             \* where each session's script run stands
  row,            \* the local variable row of each session's run (None between runs)
  view,           \* now1 and vnow of each session's run (None between runs)
  log,            \* what each session's current or last run did
  nfail,          \* store requests that raised so far
  npress,         \* buttons pressed so far
  quiet_polls,    \* sessions that polled successfully since the last press or failure
  last_payload,   \* the payload of the save the store executed last
  saved_from,     \* the configuration of the session that made that save
  adj_sum,        \* the sum of the deltas of the adjustment buttons pressed so far
  nadj            \* adjustment buttons pressed so far

vars == << now, nticks, supabase, table, stamp, session_state, pc, row, view,
           log, nfail, npress, quiet_polls, last_payload, saved_from,
           adj_sum, nadj >>

\* the events of the environment so far
events == nticks + nfail + npress

\* a session before its first run
no_session ==
  [ initialized |-> FALSE, real_base |-> 0, virt_base |-> 0,
    real_base_init |-> 0, virt_base_init |-> 0, virt_adjust |-> 0,
    speed |-> DEFAULT_SPEED, last_loaded_at |-> None, last_saved_at |-> None ]

no_log ==
  [ load |-> "none", save |-> "none", button |-> None, nowx |-> None,
    applied |-> FALSE ]

\* the first clock reading: just before 20:00:00 of day 1
StartNow == datetime(1, 19, 59, 59) + (SEC - 1)

Init ==
  /\ now = StartNow
  /\ nticks = 0
  /\ supabase \in BOOLEAN
  /\ table \in { << >>, << sql_row >> }
  /\ stamp = 0
  /\ session_state = [c \in Clients |-> no_session]
  /\ pc = [c \in Clients |-> "idle"]
  /\ row = [c \in Clients |-> None]
  /\ view = [c \in Clients |-> None]
  /\ log = [c \in Clients |-> no_log]
  /\ nfail = 0
  /\ npress = 0
  /\ quiet_polls = {}
  /\ last_payload = None
  /\ saved_from = None
  /\ adj_sum = 0
  /\ nadj = 0

(* --------------------------- store requests --------------------------- *)
\* how a request to the store can end; "raised_after_write" is a save whose
\* reply is lost after the store has executed it
LoadOutcomes == {"ok", "raised"}
SaveOutcomes == {"ok", "raised", "raised_after_write"}

\* a request may raise while the event budget lasts, and only with a client
may_end(spent, outcome) ==
  IF supabase THEN outcome = "ok" \/ spent < MaxEvents ELSE outcome = "ok"

failures(outcome) == IF supabase /\ outcome # "ok" THEN nfail + 1 ELSE nfail

\* load_remote_state: the row, or None without client, without row, on error
load_remote_state(sup, rows, outcome) ==
  IF ~sup \/ outcome # "ok" THEN None
  ELSE IF rows # << >> THEN Some(rows[1]) ELSE None

\* a slip save_remote_state could hold: last_saved_at is set before the request
save_remote_state_always_stamps(sup, ss, at, outcome) ==
  IF sup THEN [ss EXCEPT !.last_saved_at = Some(at)] ELSE ss

\* save_remote_state, the session's side: last_saved_at moves on success only
save_remote_state(sup, ss, at, outcome) ==
  IF sup /\ outcome = "ok" THEN [ss EXCEPT !.last_saved_at = Some(at)] ELSE ss

\* save_remote_state, the store's side
saved_rows(sup, rows, ss, at, outcome) ==
  IF sup /\ outcome \in {"ok", "raised_after_write"}
    THEN upsert(rows, payload_of(ss, at)) ELSE rows

\* what the log says of a load or save
status(sup, outcome) == IF sup THEN outcome ELSE "no_client"

\* the session state set up by the first run, lines 155-165
init_session(now0) ==
  LET rb == get_default_real_base(now0)
      vb == get_default_virt_base(rb)
  IN  [ initialized |-> TRUE, real_base |-> rb, virt_base |-> vb,
        real_base_init |-> rb, virt_base_init |-> vb,
        virt_adjust |-> timedelta(0, 0, 0, 0), speed |-> DEFAULT_SPEED,
        last_loaded_at |-> None, last_saved_at |-> None ]

\* a test the poll could make: a record is applied by a session that has
\* loaded none yet, and never again
pull_applies_once(ss, r) == r # None /\ ss.last_loaded_at = None

\* "row and row.get('updated_at') != st.session_state.last_loaded_at"
pull_applies(ss, r) == r # None /\ Some(r[1].updated_at) # ss.last_loaded_at

\* the history variables after a save by a session whose state is ss
SaveHistory(ss, outcome) ==
  /\ stamp' = IF supabase THEN stamp + 1 ELSE stamp
  /\ nfail' = failures(outcome)
  /\ IF supabase /\ outcome \in {"ok", "raised_after_write"}
       THEN /\ last_payload' = Some(payload_of(ss, stamp + 1))
            /\ saved_from' = Some(config(ss))
       ELSE UNCHANGED << last_payload, saved_from >>

(* ------------------------------ actions ------------------------------- *)
\* first run of a session: defaults, then load; an existing row is applied
Initialize(c) ==
  /\ pc[c] = "idle"
  /\ ~session_state[c].initialized
  /\ \E outcome \in LoadOutcomes :
       LET ss0 == init_session(now)
           r == load_remote_state(supabase, table, outcome)
       IN  /\ may_end(events, outcome)
           /\ row' = [row EXCEPT ![c] = r]
           /\ session_state' = [session_state EXCEPT ![c] =
                IF r # None THEN apply_remote_state(ss0, r[1]) ELSE ss0]
           /\ pc' = [pc EXCEPT ![c] =
                IF r = None /\ supabase THEN "init_save" ELSE "pull"]
           /\ log' = [log EXCEPT ![c] =
                [no_log EXCEPT !.load = status(supabase, outcome),
                                    !.applied = (r # None)]]
           /\ nfail' = failures(outcome)
           /\ quiet_polls' = IF outcome = "ok" THEN quiet_polls ELSE {}
  /\ UNCHANGED << now, nticks, supabase, table, stamp, view, npress,
                  last_payload, saved_from >>
  /\ UNCHANGED << adj_sum, nadj >>

\* the first run found no row: write the defaults
InitSave(c) ==
  /\ pc[c] = "init_save"
  /\ \E outcome \in SaveOutcomes :
       /\ may_end(events, outcome)
       /\ session_state' = [session_state EXCEPT ![c] =
            save_remote_state(supabase, @, stamp + 1, outcome)]
       /\ table' = saved_rows(supabase, table, session_state[c], stamp + 1, outcome)
       /\ log' = [log EXCEPT ![c].save = status(supabase, outcome)]
       /\ SaveHistory(session_state[c], outcome)
  /\ pc' = [pc EXCEPT ![c] = "pull"]
  /\ quiet_polls' = {}
  /\ UNCHANGED << now, nticks, supabase, row, view, npress >>
  /\ UNCHANGED << adj_sum, nadj >>

\* the remote pull of every run, lines 180-183
Pull(c) ==
  /\ \/ pc[c] = "pull"
     \/ pc[c] = "idle" /\ session_state[c].initialized
  /\ \E outcome \in LoadOutcomes :
       LET r == load_remote_state(supabase, table, outcome)
           ss == session_state[c]
           applies == supabase /\ pull_applies(ss, r)
           lg == IF pc[c] = "idle" THEN no_log ELSE log[c]
       IN  /\ may_end(events, outcome)
           /\ row' = [row EXCEPT ![c] = IF supabase THEN r ELSE @]
           /\ session_state' = [session_state EXCEPT ![c] =
                IF applies THEN apply_remote_state(ss, r[1]) ELSE ss]
           /\ log' = [log EXCEPT ![c] =
                [lg EXCEPT !.load = status(supabase, outcome),
                           !.applied = applies]]
           /\ nfail' = failures(outcome)
           /\ quiet_polls' =
                IF ~supabase THEN quiet_polls
                ELSE IF outcome = "ok" THEN quiet_polls \cup {c} ELSE {}
  /\ pc' = [pc EXCEPT ![c] = "render"]
  /\ UNCHANGED << now, nticks, supabase, table, stamp, view, npress,
                  last_payload, saved_from >>
  /\ UNCHANGED << adj_sum, nadj >>

\* the big clock, lines 192-195
Render(c) ==
  /\ pc[c] = "render"
  /\ view' = [view EXCEPT ![c] =
       Some([now1 |-> now, vnow |-> compute_virtual(session_state[c], now)])]
  /\ pc' = [pc EXCEPT ![c] = "handlers"]
  /\ UNCHANGED << now, nticks, supabase, table, stamp, session_state, row, log,
                  nfail, npress, quiet_polls, last_payload, saved_from >>
  /\ UNCHANGED << adj_sum, nadj >>

\* the run of a pressed button: its handler, then save_remote_state
Press(c) ==
  /\ pc[c] = "handlers"
  /\ events < MaxEvents
  /\ \E b \in Buttons, outcome \in SaveOutcomes :
       LET ss1 == handler(session_state[c], b, now)
       IN  /\ may_end(events + 1, outcome)
           /\ session_state' = [session_state EXCEPT ![c] =
                save_remote_state(supabase, ss1, stamp + 1, outcome)]
           /\ table' = saved_rows(supabase, table, ss1, stamp + 1, outcome)
           /\ log' = [log EXCEPT ![c].save = status(supabase, outcome),
                                 ![c].button = Some(b),
                                 ![c].nowx = Some(now)]
           /\ adj_sum' = IF b.kind = "adj_add" THEN adj_sum + b.arg ELSE adj_sum
           /\ nadj' = IF b.kind = "adj_add" THEN nadj + 1 ELSE nadj
           /\ SaveHistory(ss1, outcome)
  /\ npress' = npress + 1
  /\ pc' = [pc EXCEPT ![c] = "idle"]
  /\ row' = [row EXCEPT ![c] = None]
  /\ view' = [view EXCEPT ![c] = None]
  /\ quiet_polls' = {}
  /\ UNCHANGED << now, nticks, supabase >>

\* a run in which no button was pressed ends
NoPress(c) ==
  /\ pc[c] = "handlers"
  /\ pc' = [pc EXCEPT ![c] = "idle"]
  /\ row' = [row EXCEPT ![c] = None]
  /\ view' = [view EXCEPT ![c] = None]
  /\ UNCHANGED << now, nticks, supabase, table, stamp, session_state, log,
                  nfail, npress, quiet_polls, last_payload, saved_from >>
  /\ UNCHANGED << adj_sum, nadj >>

\* the wall clock advances
Tick ==
  /\ events < MaxEvents
  /\ now' = now + 1
  /\ nticks' = nticks + 1
  /\ UNCHANGED << supabase, table, stamp, session_state, pc, row, view, log,
                  nfail, npress, quiet_polls, last_payload, saved_from >>
  /\ UNCHANGED << adj_sum, nadj >>

Next ==
  \/ \E c \in Clients : Initialize(c)
  \/ \E c \in Clients : InitSave(c)
  \/ \E c \in Clients : Pull(c)
  \/ \E c \in Clients : Render(c)
  \/ \E c \in Clients : Press(c)
  \/ \E c \in Clients : NoPress(c)
  \/ Tick

Spec == Init /\ [][Next]_vars

(* -------------------- sessions without a store client ------------------ *)
\* clock readings of a first run: around midnight, around 09:00:00 and
\* around 20:00:00
DefaultNows ==
  { datetime(1, 0, 0, 0), datetime(1, 9, 0, 0), StartNow,
    datetime(1, 20, 0, 0), datetime(1, 23, 59, 59) + (SEC - 1) }

InitLocal ==
  /\ now \in DefaultNows
  /\ nticks = 0
  /\ supabase = FALSE
  /\ table = << >>
  /\ stamp = 0
  /\ session_state = [c \in Clients |-> no_session]
  /\ pc = [c \in Clients |-> "idle"]
  /\ row = [c \in Clients |-> None]
  /\ view = [c \in Clients |-> None]
  /\ log = [c \in Clients |-> no_log]
  /\ nfail = 0
  /\ npress = 0
  /\ quiet_polls = {}
  /\ last_payload = None
  /\ saved_from = None
  /\ adj_sum = 0
  /\ nadj = 0

\* get_client() gave None: the first run never saves the defaults
NextLocal ==
  \/ \E c \in Clients : Initialize(c)
  \/ \E c \in Clients : Pull(c)
  \/ \E c \in Clients : Render(c)
  \/ \E c \in Clients : Press(c)
  \/ \E c \in Clients : NoPress(c)
  \/ Tick

SpecLocal == InitLocal /\ [][NextLocal]_vars

(* ------------- serialized runs, every store request succeeds ----------- *)
InitSerial ==
  /\ now = StartNow
  /\ nticks = 0
  /\ supabase = TRUE
  /\ table \in { << >>, << sql_row >> }
  /\ stamp = 0
  /\ session_state = [c \in Clients |-> no_session]
  /\ pc = [c \in Clients |-> "idle"]
  /\ row = [c \in Clients |-> None]
  /\ view = [c \in Clients |-> None]
  /\ log = [c \in Clients |-> no_log]
  /\ nfail = 0
  /\ npress = 0
  /\ quiet_polls = {}
  /\ last_payload = None
  /\ saved_from = None
  /\ adj_sum = 0
  /\ nadj = 0

\* no run of another session is under way, and the request of this step
\* does not raise
Serialized(c) ==
  /\ \A d \in Clients \ {c} : pc[d] = "idle"
  /\ nfail' = nfail

NextSerial ==
  \/ \E c \in Clients : Serialized(c) /\ Initialize(c)
  \/ \E c \in Clients : Serialized(c) /\ InitSave(c)
  \/ \E c \in Clients : Serialized(c) /\ Pull(c)
  \/ \E c \in Clients : Serialized(c) /\ Render(c)
  \/ \E c \in Clients : Serialized(c) /\ Press(c)
  \/ \E c \in Clients : Serialized(c) /\ NoPress(c)
  \/ Tick

SpecSerial == InitSerial /\ [][NextSerial]_vars

(* ---------------------- the time mapper on its own --------------------- *)
\* configurations and instants the mapper is tried on
MapperRealBases == { datetime(1, 20, 0, 0), datetime(2, 20, 0, 0) }
MapperAdjusts == { 0, 1, -1, timedelta(0, 1, 0, 0) - 1, -timedelta(0, 0, 10, 0) }
MapperNows == { StartNow, datetime(1, 20, 10, 0), datetime(2, 20, 0, 0) + 1 }

MapperSessions ==
  { [init_session(datetime(1, 20, 0, 0)) EXCEPT
       !.real_base = rb, !.virt_adjust = adj, !.speed = sp] :
    rb \in MapperRealBases, adj \in MapperAdjusts, sp \in speeds }

InitMapper ==
  /\ now \in MapperNows
  /\ nticks = 0
  /\ supabase = FALSE
  /\ table = << >>
  /\ stamp = 0
  /\ session_state \in [Clients -> MapperSessions]
  /\ pc = [c \in Clients |-> "render"]
  /\ row = [c \in Clients |-> None]
  /\ view = [c \in Clients |-> None]
  /\ log = [c \in Clients |-> no_log]
  /\ nfail = 0
  /\ npress = 0
  /\ quiet_polls = {}
  /\ last_payload = None
  /\ saved_from = None
  /\ adj_sum = 0
  /\ nadj = 0

\* real time that passes between two script runs of the mapper's sessions
MapperSteps == { 1, HOUR }

MapperElapse ==
  /\ events < MaxEvents
  /\ \E d \in MapperSteps : now' = now + d
  /\ nticks' = nticks + 1
  /\ UNCHANGED << supabase, table, stamp, session_state, pc, row, view, log,
                  nfail, npress, quiet_polls, last_payload, saved_from >>
  /\ UNCHANGED << adj_sum, nadj >>

NextMapper ==
  \/ \E c \in Clients : Render(c)
  \/ MapperElapse

SpecMapper == InitMapper /\ [][NextMapper]_vars

\* the value the formula of the time mapper gives, before truncation
virtual_exact(ss, real_now) ==
  ss.virt_base + (real_now - ss.real_base) * ss.speed + ss.virt_adjust

\* C1: what a session renders is virt_base + (real_now - real_base) * speed +
\* virt_adjust cut down to a whole second: a whole second, at most the exact
\* value and less than a second below it; before real_base the elapsed time is
\* negative and the virtual time lies before virt_base + virt_adjust by
\* (real_base - real_now) * speed, nothing is clamped; real_base 20:00,
\* virt_base 09:00, speed 3, no adjustment, real_now 20:10 render 09:30
C1_MapperFormula ==
  \A c \in Clients :
    (pc[c] = "handlers" /\ view[c] # None) =>
      LET ss == session_state[c]
          v == view[c][1]
          exact == virtual_exact(ss, v.now1)
      IN  /\ v.vnow % SEC = 0
          /\ v.vnow <= exact
          /\ exact < v.vnow + SEC
          /\ v.now1 < ss.real_base =>
               /\ exact = ss.virt_base + ss.virt_adjust
                            - (ss.real_base - v.now1) * ss.speed
               /\ v.vnow < ss.virt_base + ss.virt_adjust
          /\ ( /\ ss.real_base = datetime(1, 20, 0, 0)
               /\ ss.virt_base = datetime(1, 9, 0, 0)
               /\ ss.speed = 3
               /\ ss.virt_adjust = 0
               /\ v.now1 = datetime(1, 20, 10, 0) ) =>
               v.vnow = datetime(1, 9, 30, 0)

\* C1 witness: one session rendered the example, another rendered an instant
\* before its real_base with a fraction of a second cut off
C1_MapperWitness ==
  \E c, d \in Clients :
    /\ pc[c] = "handlers" /\ view[c] # None
    /\ pc[d] = "handlers" /\ view[d] # None
    /\ session_state[c].real_base = datetime(1, 20, 0, 0)
    /\ session_state[c].speed = 3
    /\ session_state[c].virt_adjust = 0
    /\ view[c][1].now1 = datetime(1, 20, 10, 0)
    /\ view[c][1].vnow = datetime(1, 9, 30, 0)
    /\ view[d][1].now1 < session_state[d].real_base
    /\ virtual_exact(session_state[d], view[d][1].now1) % SEC # 0

(* ------------------------- steps of a session -------------------------- *)
\* this step is the remote pull of session c
PullStep(c) == pc[c] \in {"idle", "pull"} /\ pc'[c] = "render"

\* this step is the first-run block of session c
InitializeStep(c) == pc[c] = "idle" /\ pc'[c] \in {"init_save", "pull"}

\* this step is the save of the defaults by session c
InitSaveStep(c) == pc[c] = "init_save" /\ pc'[c] = "pull"

\* this step is a button run of session c
PressStep(c) == pc[c] = "handlers" /\ pc'[c] = "idle" /\ npress' = npress + 1

\* the record r holds exactly the configuration of the session state ss
carries(r, ss) ==
  /\ r.real_base_iso = Some(to_iso(ss.real_base))
  /\ r.virt_base_iso = Some(to_iso(ss.virt_base))
  /\ timedelta(0, 0, 0, r.virt_adjust_sec) = ss.virt_adjust
  /\ r.speed = ss.speed

(* ------------------------------ C2 ------------------------------------ *)
\* C2: once every session has completed a successful poll after the last
\* button press, store write and failed request, all of them hold the same
\* real_base, virt_base, virt_adjust and speed, each equal to the stored
\* record's field wherever the record holds one, and so render the same
\* virtual time for the same real instant
C2_AllViewersAgree ==
  (quiet_polls = Clients /\ table # << >>) =>
    /\ \A c \in Clients :
         LET ss == session_state[c]
             r == table[1]
         IN  /\ r.real_base_iso # None => r.real_base_iso = Some(to_iso(ss.real_base))
             /\ r.virt_base_iso # None => r.virt_base_iso = Some(to_iso(ss.virt_base))
             /\ timedelta(0, 0, 0, r.virt_adjust_sec) = ss.virt_adjust
             /\ r.speed = ss.speed
    /\ \A c, d \in Clients :
         /\ config(session_state[c]) = config(session_state[d])
         /\ compute_virtual(session_state[c], now) = compute_virtual(session_state[d], now)

(* ------------------------------ C3 ------------------------------------ *)
\* C3: a session that has just applied the row written by the save the store
\* executed last holds the real_base, virt_base, virt_adjust and speed the
\* saving session held when it saved
C3_RoundTrip ==
  \A c \in Clients :
    ( /\ pc[c] \in {"pull", "render", "handlers"}
      /\ log[c].applied
      /\ row[c] # None
      /\ row[c] = last_payload ) =>
      config(session_state[c]) = saved_from[1]

(* ------------------------------ C4 ------------------------------------ *)
\* the poll of session c in this step loaded a record whose updated_at is not
\* the session's last_loaded_at
PollSeesChange(c) ==
  /\ PullStep(c)
  /\ row'[c] # None
  /\ Some(row'[c][1].updated_at) # session_state[c].last_loaded_at

C5_MutationWritten ==
  [][ \A c \in Clients :
        (PressStep(c) /\ supabase) =>
          /\ log'[c].save # "none"
          /\ stamp' = stamp + 1
          /\ log'[c].save = "ok" =>
               /\ table' # << >>
               /\ carries(table'[1], session_state'[c]) ]_vars

(* ------------------------------ C6 ------------------------------------ *)
\* C6: the save of the defaults in a session's first run changes the store
\* only when the store holds no record, and no step removes the record
C6_CreatedOnlyWhenAbsent ==
  [][ /\ \A c \in Clients :
           (InitSaveStep(c) /\ table' # table) => table = << >>
      /\ table # << >> => table' # << >> ]_vars

(* ------------------------------ C7 ------------------------------------ *)
\* a request that did not go through: it raised, or there is no client
Failed == {"raised", "raised_after_write", "no_client"}

\* C7: a poll whose load failed leaves the session state as it was, a first
\* run whose load failed leaves the defaults; a button run whose save failed
\* leaves the button's change in place and last_saved_at as it was; a save is
\* issued only by a button run or by the one save of a session's first run, so
\* nothing is written again without a new button press; without a client the
\* store is never touched
C7_DegradeToLocal ==
  [][ /\ \A c \in Clients :
           /\ (PullStep(c) /\ log'[c].load \in Failed) =>
                session_state'[c] = session_state[c]
           /\ (InitializeStep(c) /\ log'[c].load \in Failed) =>
                session_state'[c] = init_session(now)
           /\ (PressStep(c) /\ log'[c].save \in Failed) =>
                /\ config(session_state'[c]) =
                     config(handler(session_state[c], log'[c].button[1], now))
                /\ session_state'[c].last_saved_at = session_state[c].last_saved_at
           /\ (InitSaveStep(c) /\ log'[c].save \in Failed) =>
                session_state'[c] = session_state[c]
           /\ (pc[c] # "init_save" /\ pc'[c] = "init_save") =>
                ~session_state[c].initialized
      /\ (table' # table \/ stamp' # stamp) =>
           \E c \in Clients : PressStep(c) \/ InitSaveStep(c)
      /\ ~supabase => (table' = table /\ stamp' = stamp) ]_vars

\* C7 witness: a session's save raised and never reached the store; its
\* button's change is in place and differs from the stored record, and the
\* session has polled again since
C7_DegradeWitness ==
  \E c \in Clients :
    /\ log[c].save = "raised"
    /\ log[c].button # None
    /\ log[c].button[1].kind = "speed"
    /\ pc[c] = "idle"
    /\ table # << >>
    /\ session_state[c].speed = log[c].button[1].arg
    /\ table[1].speed # session_state[c].speed
    /\ session_state[c].last_saved_at = None

(* ------------------------------ C8 ------------------------------------ *)
\* C8: the stored record is, field for field, the payload of the save the
\* store executed last
C8_LastWriterWins ==
  last_payload # None => table = last_payload

\* C8 witness: two sessions have saved with different speeds, and the record
\* is the later payload
C8_LastWriterWitness ==
  \E c, d \in Clients :
    /\ c # d
    /\ session_state[c].last_saved_at # None
    /\ session_state[d].last_saved_at # None
    /\ session_state[c].last_saved_at[1] < session_state[d].last_saved_at[1]
    /\ log[c].button # None /\ log[c].button[1].kind = "speed"
    /\ log[d].button # None /\ log[d].button[1].kind = "virt_add"
    /\ table # << >>
    /\ table[1].updated_at = session_state[d].last_saved_at[1]
    /\ table[1].speed # log[c].button[1].arg

(* ------------------------------ C9 ------------------------------------ *)
\* session d pressed the adjustment button log[d].button after it had loaded
\* the record that session c has pulled in its current run, d's save is the
\* stored record, and c holds the pulled record's adjustment
BothPulledSame(c, d) ==
  /\ c # d
  /\ pc[d] = "idle"
  /\ log[d].button # None
  /\ log[d].button[1].kind = "adj_add"
  /\ log[d].save = "ok"
  /\ row[c] # None
  /\ table # << >>
  /\ Some(table[1].updated_at) = session_state[d].last_saved_at
  /\ session_state[d].last_loaded_at = Some(row[c][1].updated_at)
  /\ session_state[c].last_loaded_at = Some(row[c][1].updated_at)
  /\ session_state[c].virt_adjust = timedelta(0, 0, 0, row[c][1].virt_adjust_sec)

\* C9: when two sessions pulled the same record and one has saved its
\* adjustment delta on it, the save of the other's delta succeeds without any
\* notice and stores the pulled adjustment plus the second delta alone: where
\* the record held the first delta, it is gone, and the first session is told
\* nothing
C9_LostUpdate ==
  [][ \A c, d \in Clients :
        ( /\ BothPulledSame(c, d)
          /\ PressStep(c)
          /\ log'[c].button[1].kind = "adj_add"
          /\ log'[c].save = "ok" ) =>
          /\ table'[1].virt_adjust_sec =
               row[c][1].virt_adjust_sec + int_total_seconds(log'[c].button[1].arg)
          /\ table[1].virt_adjust_sec = row[c][1].virt_adjust_sec
                 + int_total_seconds(log[d].button[1].arg) =>
               table'[1].virt_adjust_sec # row[c][1].virt_adjust_sec
                 + int_total_seconds(log[d].button[1].arg)
                 + int_total_seconds(log'[c].button[1].arg)
          /\ session_state'[d] = session_state[d] ]_vars

\* C9 witness: both sessions pressed an adjustment button on the same pulled
\* record, both saves succeeded, and the record holds the later delta only
C9_LostUpdateWitness ==
  \E c, d \in Clients :
    /\ c # d
    /\ pc[c] = "idle" /\ pc[d] = "idle"
    /\ log[c].button # None /\ log[c].button[1].kind = "adj_add"
    /\ log[d].button # None /\ log[d].button[1].kind = "adj_add"
    /\ log[c].save = "ok" /\ log[d].save = "ok"
    /\ session_state[c].last_loaded_at = session_state[d].last_loaded_at
    /\ session_state[c].last_loaded_at # None
    /\ session_state[d].last_saved_at[1] < session_state[c].last_saved_at[1]
    /\ table[1].updated_at = session_state[c].last_saved_at[1]
    /\ timedelta(0, 0, 0, table[1].virt_adjust_sec) = log[c].button[1].arg
    /\ session_state[d].virt_adjust = log[d].button[1].arg

(* ------------------------------ C10 ----------------------------------- *)
\* C10: the speed of every session, of the stored record and of every loaded
\* row is an integer of at least 1
C10_SpeedAtLeastOne ==
  /\ \A c \in Clients :
       /\ session_state[c].speed \in Nat \ {0}
       /\ row[c] # None => row[c][1].speed \in Nat \ {0}
  /\ table # << >> => table[1].speed \in Nat \ {0}

\* C10 witness: a session pressed x1 and saved, and the other session holds
\* speed 1 from the record
C10_SpeedWitness ==
  \E c, d \in Clients :
    /\ c # d
    /\ log[c].button # None
    /\ log[c].button[1] = [kind |-> "speed", arg |-> 1]
    /\ table # << >> /\ table[1].speed = 1
    /\ log[d].applied
    /\ session_state[d].speed = 1


\* two sessions rendered the same configuration, c at an instant not after d's
SameConfigInOrder(c, d) ==
  /\ view[c] # None /\ view[d] # None
  /\ config(session_state[c]) = config(session_state[d])
  /\ session_state[c].speed > 0
  /\ view[c][1].now1 <= view[d][1].now1

\* C11: virtual time never runs backwards while the configuration is
\* unchanged: for one configuration with speed > 0 and instants t1 <= t2 the
\* virtual time rendered at t1 is not after the one rendered at t2
C11_Monotonic ==
  \A c, d \in Clients :
    SameConfigInOrder(c, d) => view[c][1].vnow <= view[d][1].vnow

\* C11 witness: two renderings of one configuration at different instants,
\* the later one showing a later virtual time
C11_MonotonicWitness ==
  \E c, d \in Clients :
    /\ SameConfigInOrder(c, d)
    /\ view[c][1].now1 < view[d][1].now1
    /\ view[c][1].vnow < view[d][1].vnow

(* ------------------------------ C12 ----------------------------------- *)
\* instants at which the mapper is read after a reset of the adjustment
ResetNows == { now, now + 1, now + DAY, StartNow - DAY }

\* C12: the run of "보정 초기화" leaves virt_adjust zero, whatever adjustment
\* and set-to-target presses came before, and then at every instant the
\* virtual time is virt_base + (real_now - real_base) * speed cut down to a
\* whole second
C12_ResetAdjustment ==
  [][ \A c \in Clients :
        (PressStep(c) /\ log'[c].button[1].kind = "adj_reset") =>
          LET ss == session_state'[c]
          IN  /\ ss.virt_adjust = 0
              /\ \A t \in ResetNows :
                    LET v == compute_virtual(ss, t)
                        plain == ss.virt_base + (t - ss.real_base) * ss.speed
                    IN  v % SEC = 0 /\ v <= plain /\ plain < v + SEC ]_vars

\* C12 witness: d saved an adjustment of a second or more, c loaded d's
\* record and then pressed "보정 초기화"; c holds no adjustment and the record
\* holds none either
C12_ResetWitness ==
  \E c, d \in Clients :
    /\ c # d
    /\ pc[c] = "idle" /\ pc[d] = "idle"
    /\ log[d].button # None
    /\ log[d].button[1].kind \in {"adj_add", "set_target"}
    /\ log[d].save = "ok"
    /\ session_state[d].virt_adjust >= SEC \/ session_state[d].virt_adjust <= -SEC
    /\ session_state[c].last_loaded_at = session_state[d].last_saved_at
    /\ session_state[d].last_saved_at # None
    /\ log[c].button # None /\ log[c].button[1].kind = "adj_reset"
    /\ log[c].save = "ok"
    /\ session_state[c].virt_adjust = 0
    /\ table # << >> /\ table[1].virt_adjust_sec = 0

(* ------------------------------ C13 ----------------------------------- *)
\* this step is the poll of session c that follows its run of the
\* set-to-target button and loads the record that run saved
PollAfterSetTarget(c) ==
  /\ PullStep(c) /\ pc[c] = "idle"
  /\ log[c].button # None /\ log[c].button[1].kind = "set_target"
  /\ log[c].save = "ok"
  /\ row'[c] # None
  /\ Some(row'[c][1].updated_at) = session_state[c].last_saved_at

\* C13: the run of "지금 시각을 이 값으로 맞춤" with target T at instant t sets
\* virt_adjust to T - (virt_base + (t - real_base) * speed), so the virtual
\* time at t is T; and the virtual time at t is still T for the state the
\* session holds after its save and its next poll
C13_SetToTarget ==
  [][ \A c \in Clients :
        /\ (PressStep(c) /\ log'[c].button[1].kind = "set_target") =>
             LET T == log'[c].button[1].arg
                 ss == session_state[c]
             IN  /\ session_state'[c].virt_adjust =
                      T - (ss.virt_base + (now - ss.real_base) * ss.speed)
                 /\ compute_virtual(session_state'[c], now) = T
        /\ PollAfterSetTarget(c) =>
             compute_virtual(session_state'[c], log[c].nowx[1])
               = log[c].button[1].arg ]_vars

(* ------------------------------ C14 ----------------------------------- *)
\* this step gave session c default bases: its first run found no record, or
\* it ran "모두 초기화"
DefaultsStep(c) ==
  \/ InitializeStep(c) /\ ~log'[c].applied
  \/ PressStep(c) /\ log'[c].button[1].kind = "reset_all"

\* C14: the default real base is the latest instant with time of day
\* 20:00:00 that is not after the clock reading (base <= now < base + 1 day),
\* the default virtual base is 09:00:00 of the real base's date; so right
\* after a first run without a record, and after reset-all, the elapsed real
\* time is not negative and less than one day
C14_DefaultBases ==
  [][ \A c \in Clients :
        DefaultsStep(c) =>
          LET ss == session_state'[c]
              rb == ss.real_base
              elapsed == now - rb
          IN  /\ rb = get_default_real_base(now)
              /\ rb % DAY = timedelta(0, 20, 0, 0)
              /\ rb <= now /\ now < rb + DAY
              /\ ss.virt_base = get_default_virt_base(rb)
              /\ ss.virt_base % DAY = timedelta(0, 9, 0, 0)
              /\ ss.virt_base \div DAY = rb \div DAY
              /\ 0 <= elapsed /\ elapsed < DAY
              /\ compute_virtual(ss, now) >= ss.virt_base + ss.virt_adjust ]_vars

\* C14 witness: one session took its defaults before 20:00:00 and holds the
\* base of the day before, another took them at or after 20:00:00 by
\* reset-all and holds the base of the same day
C14_DefaultWitness ==
  \E c, d \in Clients :
    /\ session_state[c].initialized /\ session_state[d].initialized
    /\ log[c].button = None
    /\ session_state[c].real_base \div DAY < now \div DAY
    /\ session_state[c].real_base = session_state[c].real_base_init
    /\ log[d].button # None /\ log[d].button[1].kind = "reset_all"
    /\ pc[d] = "idle"
    /\ session_state[d].real_base \div DAY = now \div DAY
    /\ session_state[d].real_base <= now

(* ------------------------------ C15 ----------------------------------- *)
\* C15: when runs do not overlap and every store request succeeds, then after
\* any presses of adjustment buttons by any sessions (and of no other button)
\* the record's virt_adjust is its initial value, zero, plus the sum of the
\* pressed deltas
C15_NoLostUpdate ==
  (table # << >> /\ nadj = npress) =>
    timedelta(0, 0, 0, table[1].virt_adjust_sec) = 0 + adj_sum

\* C15 witness: two sessions pressed one adjustment button each, one run
\* after the other, and the record holds the sum of both deltas
C15_NoLostUpdateWitness ==
  \E c, d \in Clients :
    /\ c # d
    /\ log[c].button # None /\ log[c].button[1].kind = "adj_add"
    /\ log[d].button # None /\ log[d].button[1].kind = "adj_add"
    /\ nadj = npress
    /\ session_state[c].last_saved_at # None
    /\ session_state[d].last_saved_at # None
    /\ session_state[c].last_saved_at[1] < session_state[d].last_saved_at[1]
    /\ session_state[d].virt_adjust = log[c].button[1].arg + log[d].button[1].arg
    /\ session_state[d].virt_adjust # 0
    /\ timedelta(0, 0, 0, table[1].virt_adjust_sec) = session_state[d].virt_adjust

(* ------------------------------ C16 ----------------------------------- *)
\* this step computed new defaults for session c: its first run, or its run
\* of "모두 초기화"
FreshDefaultsStep(c) ==
  \/ InitializeStep(c)
  \/ PressStep(c) /\ log'[c].button[1].kind = "reset_all"

\* C16: the reset button of a base restores the session's own real_base_init
\* (virt_base_init) and the run saves that value to the store; real_base_init
\* and virt_base_init are the defaults computed at the session's first run or
\* at its latest reset-all, no poll and no other button changes them
C16_BaseReset ==
  [][ \A c \in Clients :
        LET ss == session_state[c]
            ss1 == session_state'[c]
        IN  /\ (PressStep(c) /\ log'[c].button[1].kind = "real_reset") =>
                 /\ ss1.real_base = ss.real_base_init
                 /\ log'[c].save = "ok" =>
                      table'[1].real_base_iso = Some(to_iso(ss.real_base_init))
            /\ (PressStep(c) /\ log'[c].button[1].kind = "virt_reset") =>
                 /\ ss1.virt_base = ss.virt_base_init
                 /\ log'[c].save = "ok" =>
                      table'[1].virt_base_iso = Some(to_iso(ss.virt_base_init))
            /\ FreshDefaultsStep(c) =>
                 /\ ss1.real_base_init = get_default_real_base(now)
                 /\ ss1.virt_base_init = get_default_virt_base(ss1.real_base_init)
            /\ ~FreshDefaultsStep(c) =>
                 /\ ss1.real_base_init = ss.real_base_init
                 /\ ss1.virt_base_init = ss.virt_base_init ]_vars

\* C16 witness: d moved the real base and saved, c loaded d's record and then
\* pressed the reset button of the real base; c and the record hold c's own
\* real_base_init, which is not the value d saved
C16_BaseResetWitness ==
  \E c, d \in Clients :
    /\ c # d
    /\ log[d].button # None /\ log[d].button[1].kind = "real_add"
    /\ log[d].save = "ok"
    /\ session_state[d].last_saved_at # None
    /\ session_state[c].last_loaded_at = session_state[d].last_saved_at
    /\ log[c].button # None /\ log[c].button[1].kind = "real_reset"
    /\ log[c].save = "ok"
    /\ session_state[c].real_base = session_state[c].real_base_init
    /\ session_state[d].real_base # session_state[c].real_base_init
    /\ table[1].real_base_iso = Some(to_iso(session_state[c].real_base_init))
====
